---- MODULE Spec2Model ----
(***************************************************************************)
(* State-machine model of src/src/components/SudokuGrid.tsx: the React     *)
(* component's state (useState cells), its props, and its handlers         *)
(* (the puzzle-loading effect, handleNumberSelect, handleCellClick).        *)
(* Grids are 0-indexed functions [0..8 -> [0..8 -> Int]], as in the source. *)
(***************************************************************************)
EXTENDS Integers, Sequences, FiniteSets, TLC

VARIABLES
    puzzleTables,       \* the module-level sudokuPuzzles object: difficulty -> table
    difficulty,         \* prop: "easy" | "medium" | "hard"
    gameOver,           \* prop: boolean, set by the parent when no lives remain
    grid,               \* useState: the working grid
    initialGrid,        \* useState: the puzzle as loaded
    errors,             \* useState: per-cell error flag
    correctCells,       \* useState: per-cell correct flag
    selectedNumber,     \* useState: the digit the next click places
    selectedCell,       \* useState: <<row, col>> of the last accepted click, or Null
    highlightedNumber,  \* useState: <<n>> after a number was picked, or Null
    lastCall,           \* the handler that ran last: <<name, args...>>
    onErrorCalls,       \* calls of the onError prop made by the handler that ran last
    onSolvedCalls,      \* calls of the onSolved prop made by the handler that ran last
    validCall,          \* the isValidMove call of the handler that ran last:
                        \* <<row, col, num, result>>, or Null
    wasSolved,          \* onSolved has been called since the puzzle was loaded
    cleanRun            \* every click since the load put the solution digit in an empty cell

vars == <<puzzleTables, difficulty, gameOver, grid, initialGrid, errors, correctCells,
          selectedNumber, selectedCell, highlightedNumber,
          lastCall, onErrorCalls, onSolvedCalls, validCall, wasSolved, cleanRun>>

Idx == 0..8

Null == <<>>

Difficulties == {"easy", "medium", "hard"}

\* A 9x9 table written as nine rows, as a 0-indexed grid.
FromRows(rows) == [r \in Idx |-> [c \in Idx |-> rows[r + 1][c + 1]]]

easy ==
    FromRows(<< <<5, 3, 0, 0, 7, 0, 0, 0, 0>>,
                <<6, 0, 0, 1, 9, 5, 0, 0, 0>>,
                <<0, 9, 8, 0, 0, 0, 0, 6, 0>>,
                <<8, 0, 0, 0, 6, 0, 0, 0, 3>>,
                <<4, 0, 0, 8, 0, 3, 0, 0, 1>>,
                <<7, 0, 0, 0, 2, 0, 0, 0, 6>>,
                <<0, 6, 0, 0, 0, 0, 2, 8, 0>>,
                <<0, 0, 0, 4, 1, 9, 0, 0, 5>>,
                <<0, 0, 0, 0, 8, 0, 0, 7, 9>> >>)

medium ==
    FromRows(<< <<0, 2, 0, 6, 0, 8, 0, 0, 0>>,
                <<5, 8, 0, 0, 0, 9, 7, 0, 0>>,
                <<0, 0, 0, 0, 4, 0, 0, 0, 0>>,
                <<3, 7, 0, 0, 0, 0, 5, 0, 0>>,
                <<6, 0, 0, 0, 0, 0, 0, 0, 4>>,
                <<0, 0, 8, 0, 0, 0, 0, 1, 3>>,
                <<0, 0, 0, 0, 2, 0, 0, 0, 0>>,
                <<0, 0, 9, 8, 0, 0, 0, 3, 6>>,
                <<0, 0, 0, 3, 0, 6, 0, 9, 0>> >>)

hard ==
    FromRows(<< <<0, 0, 0, 6, 0, 0, 4, 0, 0>>,
                <<7, 0, 0, 0, 0, 3, 6, 0, 0>>,
                <<0, 0, 0, 0, 9, 1, 0, 8, 0>>,
                <<0, 0, 0, 0, 0, 0, 0, 0, 0>>,
                <<0, 5, 0, 1, 8, 0, 0, 0, 3>>,
                <<0, 0, 0, 3, 0, 6, 0, 4, 5>>,
                <<0, 4, 0, 2, 0, 0, 0, 6, 0>>,
                <<9, 0, 3, 0, 0, 0, 0, 0, 0>>,
                <<0, 2, 0, 0, 0, 0, 1, 0, 0>> >>)

sudokuPuzzles(d) ==
    CASE d = "easy" -> easy
      [] d = "medium" -> medium
      [] d = "hard" -> hard

AllFalse == [r \in Idx |-> [c \in Idx |-> FALSE]]

(***************************************************************************)
(* isValidMove: the three scans, each skipping the target cell.            *)
(***************************************************************************)
\* Mutant: the row scan does not skip the target column.
RowScanClear_NoSkip(g, row, col, num) ==
    \A x \in Idx : ~(g[row][x] = num)

RowScanClear(g, row, col, num) ==
    \A x \in Idx : ~(x # col /\ g[row][x] = num)

ColScanClear(g, row, col, num) ==
    \A x \in Idx : ~(x # row /\ g[x][col] = num)

\* Mutant: the box loops stop one cell early.
BoxScanClear_LoopsShort(g, row, col, num) ==
    LET startRow == row - (row % 3)
        startCol == col - (col % 3)
    IN  \A i \in 0..1 : \A j \in 0..1 :
            LET currentRow == startRow + i
                currentCol == startCol + j
            IN  ~((currentRow # row \/ currentCol # col)
                  /\ g[currentRow][currentCol] = num)

BoxScanClear(g, row, col, num) ==
    LET startRow == row - (row % 3)
        startCol == col - (col % 3)
    IN  \A i \in 0..2 : \A j \in 0..2 :
            LET currentRow == startRow + i
                currentCol == startCol + j
            IN  ~((currentRow # row \/ currentCol # col)
                  /\ g[currentRow][currentCol] = num)

\* Mutant: the row scan is missing.
isValidMove_NoRow(g, row, col, num) ==
    /\ ColScanClear(g, row, col, num)
    /\ BoxScanClear(g, row, col, num)

\* Mutant: the box scan is missing.
isValidMove_NoBox(g, row, col, num) ==
    /\ RowScanClear(g, row, col, num)
    /\ ColScanClear(g, row, col, num)

isValidMove(g, row, col, num) ==
    /\ RowScanClear(g, row, col, num)
    /\ ColScanClear(g, row, col, num)
    /\ BoxScanClear(g, row, col, num)

\* Mutant: the row loop stops one row early.
isSolved_RowsShort(g) == \A row \in 0..7 : \A col \in Idx : g[row][col] # 0

\* isSolved: no cell of the grid is 0.
isSolved(g) == \A row \in Idx : \A col \in Idx : g[row][col] # 0

\* newErrors.some((row) => row.some((cell) => cell))
AnyError(e) == \E row \in Idx : \E col \in Idx : e[row][col]

(***************************************************************************)
(* The component.                                                          *)
(***************************************************************************)

\* useEffect(..., [difficulty]): runs on mount and whenever the prop changes.
\* Mutant: the effect does not clear correctCells.
InitializeGrid_KeepsCorrect(d) ==
    LET puzzle == puzzleTables[d]
    IN  /\ grid' = [r \in Idx |-> puzzle[r]]
        /\ initialGrid' = [r \in Idx |-> puzzle[r]]
        /\ errors' = AllFalse
        /\ correctCells' = correctCells

InitializeGrid(d) ==
    LET puzzle == puzzleTables[d]
    IN  /\ grid' = [r \in Idx |-> puzzle[r]]
        /\ initialGrid' = [r \in Idx |-> puzzle[r]]
        /\ errors' = AllFalse
        /\ correctCells' = AllFalse

Init ==
    /\ puzzleTables = [d \in Difficulties |-> sudokuPuzzles(d)]
    /\ difficulty \in Difficulties
    /\ gameOver = FALSE
    /\ grid = sudokuPuzzles(difficulty)
    /\ initialGrid = sudokuPuzzles(difficulty)
    /\ errors = AllFalse
    /\ correctCells = AllFalse
    /\ selectedNumber = 1
    /\ selectedCell = Null
    /\ highlightedNumber = Null
    /\ lastCall = <<"mount">>
    /\ onErrorCalls = 0
    /\ onSolvedCalls = 0
    /\ validCall = Null
    /\ wasSolved = FALSE
    /\ cleanRun = TRUE

\* The parent passes another difficulty: the effect reloads the four grids and
\* leaves the selection state alone.
LoadPuzzle(d) ==
    /\ d # difficulty
    /\ difficulty' = d
    /\ InitializeGrid(d)
    /\ lastCall' = <<"loadPuzzle", d>>
    /\ onErrorCalls' = 0
    /\ onSolvedCalls' = 0
    /\ validCall' = Null
    /\ wasSolved' = FALSE
    /\ cleanRun' = TRUE
    /\ UNCHANGED <<puzzleTables, gameOver, selectedNumber, selectedCell,
                   highlightedNumber>>

\* The parent's life counter ran out: the gameOver prop becomes true.
LivesExhausted ==
    /\ ~gameOver
    /\ gameOver' = TRUE
    /\ lastCall' = <<"gameOver">>
    /\ onErrorCalls' = 0
    /\ onSolvedCalls' = 0
    /\ validCall' = Null
    /\ UNCHANGED <<puzzleTables, difficulty, grid, initialGrid, errors,
                   correctCells, selectedNumber, selectedCell, highlightedNumber,
                   wasSolved, cleanRun>>

\* Mutant: the picker passes the button's index instead of its number.
handleNumberSelect_ZeroBased(number) ==
    /\ selectedNumber' = number - 1
    /\ highlightedNumber' = <<number - 1>>
    /\ lastCall' = <<"handleNumberSelect", number>>
    /\ onErrorCalls' = 0
    /\ onSolvedCalls' = 0
    /\ validCall' = Null
    /\ UNCHANGED <<puzzleTables, difficulty, gameOver, grid, initialGrid, errors,
                   correctCells, selectedCell, wasSolved>>

handleNumberSelect(number) ==
    /\ selectedNumber' = number
    /\ highlightedNumber' = <<number>>
    /\ lastCall' = <<"handleNumberSelect", number>>
    /\ onErrorCalls' = 0
    /\ onSolvedCalls' = 0
    /\ validCall' = Null
    /\ UNCHANGED <<puzzleTables, difficulty, gameOver, grid, initialGrid, errors,
                   correctCells, selectedCell, wasSolved>>

\* Mutant: the early return forgets the prefilled-cell test.
ClickIgnored_OnlyGameOver(row, col) == gameOver

\* Mutant: the early return forgets the gameOver test.
ClickIgnored_OnlyPrefilled(row, col) == initialGrid[row][col] # 0

\* Line 113: the early return.
ClickIgnored(row, col) == initialGrid[row][col] # 0 \/ gameOver

\* Line 124: the move is flagged as an error.
MoveRejected(newGrid, row, col) ==
    selectedNumber # 0 /\ ~isValidMove(newGrid, row, col, selectedNumber)

\* Mutant: the solved check rescans the board instead of reading the flags.
SolvedCheck_Rescan(newGrid, newErrors) ==
    /\ isSolved(newGrid)
    /\ \A row \in Idx : \A col \in Idx :
          isValidMove(newGrid, row, col, newGrid[row][col])

\* Mutant: the solved check forgets the error flags.
SolvedCheck_NoFlags(newGrid, newErrors) == isSolved(newGrid)

\* Line 142: the solved check on the updated grids.
SolvedCheck(newGrid, newErrors) == isSolved(newGrid) /\ ~AnyError(newErrors)

\* Mutant: grid shares its rows with the table (no row copies at lines 61
\* and 117), so the write of line 121 lands in the table.
TablesAfterWrite_SharedRows(row, col) ==
    [puzzleTables EXCEPT ![difficulty][row][col] = selectedNumber]

\* Lines 61-62 and 117 copy every row (puzzle.map((row) => [...row]),
\* grid.map((r) => [...r])), so the write of line 121 reaches no table.
TablesAfterWrite(row, col) == puzzleTables

\* Mutant: newErrors is built afresh instead of copied from errors.
handleCellClick_FreshErrors(row, col) ==
    /\ lastCall' = <<"handleCellClick", row, col>>
    /\ IF ClickIgnored(row, col)
       THEN /\ onErrorCalls' = 0
            /\ onSolvedCalls' = 0
            /\ validCall' = Null
            /\ UNCHANGED <<puzzleTables, difficulty, gameOver, grid, initialGrid,
                           errors, correctCells, selectedNumber, selectedCell,
                           highlightedNumber, wasSolved>>
       ELSE LET newGrid == [grid EXCEPT ![row][col] = selectedNumber]
                rejected == MoveRejected(newGrid, row, col)
                newErrors == [AllFalse EXCEPT ![row][col] = rejected]
                newCorrectCells == [correctCells EXCEPT ![row][col] = ~rejected]
                solved == SolvedCheck(newGrid, newErrors)
            IN  /\ selectedCell' = <<row, col>>
                /\ puzzleTables' = TablesAfterWrite(row, col)
                /\ grid' = newGrid
                /\ errors' = newErrors
                /\ correctCells' = newCorrectCells
                /\ onErrorCalls' = IF rejected THEN 1 ELSE 0
                /\ onSolvedCalls' = IF solved THEN 1 ELSE 0
                /\ validCall' =
                      IF selectedNumber # 0
                      THEN <<row, col, selectedNumber,
                             isValidMove(newGrid, row, col, selectedNumber)>>
                      ELSE Null
                /\ wasSolved' = (wasSolved \/ solved)
                /\ UNCHANGED <<difficulty, gameOver, initialGrid, selectedNumber,
                               highlightedNumber>>

handleCellClick(row, col) ==
    /\ lastCall' = <<"handleCellClick", row, col>>
    /\ IF ClickIgnored(row, col)
       THEN /\ onErrorCalls' = 0
            /\ onSolvedCalls' = 0
            /\ validCall' = Null
            /\ UNCHANGED <<puzzleTables, difficulty, gameOver, grid, initialGrid,
                           errors, correctCells, selectedNumber, selectedCell,
                           highlightedNumber, wasSolved>>
       ELSE LET newGrid == [grid EXCEPT ![row][col] = selectedNumber]
                rejected == MoveRejected(newGrid, row, col)
                newErrors == [errors EXCEPT ![row][col] = rejected]
                newCorrectCells == [correctCells EXCEPT ![row][col] = ~rejected]
                solved == SolvedCheck(newGrid, newErrors)
            IN  /\ selectedCell' = <<row, col>>
                /\ puzzleTables' = TablesAfterWrite(row, col)
                /\ grid' = newGrid
                /\ errors' = newErrors
                /\ correctCells' = newCorrectCells
                /\ onErrorCalls' = IF rejected THEN 1 ELSE 0
                /\ onSolvedCalls' = IF solved THEN 1 ELSE 0
                /\ validCall' =
                      IF selectedNumber # 0
                      THEN <<row, col, selectedNumber,
                             isValidMove(newGrid, row, col, selectedNumber)>>
                      ELSE Null
                /\ wasSolved' = (wasSolved \/ solved)
                /\ UNCHANGED <<difficulty, gameOver, initialGrid, selectedNumber,
                               highlightedNumber>>

(***************************************************************************)
(* The player.  Clicks and number picks are drawn from small sets: a few   *)
(* editable cells played freely with a few digits, one prefilled cell, and *)
(* the remaining empty cells filled in row-major order with the digits of  *)
(* the puzzle's completion.                                                *)
(***************************************************************************)

\* How many editable cells the player plays freely.
MaxFree == 2

\* The completion of each puzzle table (each table has exactly one).
easySolution ==
    FromRows(<< <<5, 3, 4, 6, 7, 8, 9, 1, 2>>,
                <<6, 7, 2, 1, 9, 5, 3, 4, 8>>,
                <<1, 9, 8, 3, 4, 2, 5, 6, 7>>,
                <<8, 5, 9, 7, 6, 1, 4, 2, 3>>,
                <<4, 2, 6, 8, 5, 3, 7, 9, 1>>,
                <<7, 1, 3, 9, 2, 4, 8, 5, 6>>,
                <<9, 6, 1, 5, 3, 7, 2, 8, 4>>,
                <<2, 8, 7, 4, 1, 9, 6, 3, 5>>,
                <<3, 4, 5, 2, 8, 6, 1, 7, 9>> >>)

mediumSolution ==
    FromRows(<< <<1, 2, 3, 6, 7, 8, 9, 4, 5>>,
                <<5, 8, 4, 2, 3, 9, 7, 6, 1>>,
                <<9, 6, 7, 1, 4, 5, 3, 2, 8>>,
                <<3, 7, 2, 4, 6, 1, 5, 8, 9>>,
                <<6, 9, 1, 5, 8, 3, 2, 7, 4>>,
                <<4, 5, 8, 7, 9, 2, 6, 1, 3>>,
                <<8, 3, 6, 9, 2, 4, 1, 5, 7>>,
                <<2, 1, 9, 8, 5, 7, 4, 3, 6>>,
                <<7, 4, 5, 3, 1, 6, 8, 9, 2>> >>)

hardSolution ==
    FromRows(<< <<5, 8, 1, 6, 7, 2, 4, 3, 9>>,
                <<7, 9, 2, 8, 4, 3, 6, 5, 1>>,
                <<3, 6, 4, 5, 9, 1, 7, 8, 2>>,
                <<4, 3, 8, 9, 5, 7, 2, 1, 6>>,
                <<2, 5, 6, 1, 8, 4, 9, 7, 3>>,
                <<1, 7, 9, 3, 2, 6, 8, 4, 5>>,
                <<8, 4, 5, 2, 1, 9, 3, 6, 7>>,
                <<9, 1, 3, 7, 6, 8, 5, 2, 4>>,
                <<6, 2, 7, 4, 3, 5, 1, 9, 8>> >>)

Solution(d) ==
    CASE d = "easy" -> easySolution
      [] d = "medium" -> mediumSolution
      [] d = "hard" -> hardSolution

\* The editable cells the player plays freely, in the order they are added.
FreeOrder(d) ==
    CASE d = "easy" -> << <<0, 2>>, <<0, 3>>, <<1, 1>> >>
      [] d = "medium" -> << <<0, 0>>, <<0, 2>>, <<2, 0>> >>
      [] d = "hard" -> << <<0, 0>>, <<0, 1>>, <<1, 1>> >>

FreeCells(d) == {FreeOrder(d)[i] : i \in 1..MaxFree}

\* A digit already present in row 0 of the table.
ClashDigit(d) ==
    CASE d = "easy" -> 5
      [] d = "medium" -> 2
      [] d = "hard" -> 6

\* The digits played on the free cells: the solution digits of the first two
\* and the clashing digit.
PlayDigits(d) ==
    {Solution(d)[FreeOrder(d)[i][1]][FreeOrder(d)[i][2]] : i \in 1..2}
        \cup {ClashDigit(d)}

\* The prefilled cell the player tries to overwrite.
LockedCell(d) ==
    CASE d = "easy" -> <<0, 0>>
      [] d = "medium" -> <<0, 1>>
      [] d = "hard" -> <<0, 3>>

\* Cell number i in row-major order.
CellAt(i) == <<i \div 9, i % 9>>

\* The row-major number of the first empty cell outside `free` from i on; 81 if none.
RECURSIVE FirstLeft(_, _)
FirstLeft(i, free) ==
    IF i = 81 THEN 81
    ELSE IF grid[i \div 9][i % 9] = 0 /\ CellAt(i) \notin free THEN i
    ELSE FirstLeft(i + 1, free)

\* The row-major number of the first editable cell outside `free` from i on.
RECURSIVE FirstScripted(_, _)
FirstScripted(i, free) ==
    IF i = 81 THEN 81
    ELSE IF initialGrid[i \div 9][i % 9] = 0 /\ CellAt(i) \notin free THEN i
    ELSE FirstScripted(i + 1, free)

\* What the player may pick and click in the current state:
\*  - the prefilled cell, always;
\*  - the next scripted cell with its solution digit, while the free cells are
\*    empty or hold what a clean run put there;
\*  - a free cell with any play digit on the board as loaded or once the
\*    scripted cells are full; in between, only with its solution digit.
Player ==
    LET free == FreeCells(difficulty)
        sol == Solution(difficulty)
        play == PlayDigits(difficulty)
        left == FirstLeft(0, free)
        first == FirstScripted(0, free)
        open == left = 81 \/ left = first
        untouched == \A c \in free : grid[c[1]][c[2]] = 0
        script == IF left < 81 /\ (untouched \/ cleanRun) THEN {CellAt(left)} ELSE {}
        clean == {c \in free : cleanRun /\ grid[c[1]][c[2]] = 0}
    IN  [picks |-> (IF open THEN play ELSE {})
                      \cup {sol[c[1]][c[2]] : c \in script \cup clean},
         clicks |-> {LockedCell(difficulty)}
                      \cup (IF open /\ selectedNumber \in play THEN free ELSE {})
                      \cup {c \in script \cup clean : selectedNumber = sol[c[1]][c[2]]}]

SelectDigit ==
    \E number \in Player.picks :
        /\ handleNumberSelect(number)
        /\ UNCHANGED cleanRun

AttemptPlacement ==
    \E c \in Player.clicks :
        /\ handleCellClick(c[1], c[2])
        /\ cleanRun' = IF ClickIgnored(c[1], c[2]) THEN cleanRun
                       ELSE /\ cleanRun
                            /\ grid[c[1]][c[2]] = 0
                            /\ selectedNumber = Solution(difficulty)[c[1]][c[2]]

ChangeDifficulty == \E d \in Difficulties : LoadPuzzle(d)

Next ==
    \/ ChangeDifficulty
    \/ LivesExhausted
    \/ SelectDigit
    \/ AttemptPlacement

Spec == Init /\ [][Next]_vars

(***************************************************************************)
(* isValidMove alone, as a function of its arguments.  The grids are the   *)
(* puzzle tables and their completions, and each of these with one cell    *)
(* overwritten by any value 0..9; the calls are all cells and digits 1..9. *)
(***************************************************************************)

\* The cells that get overwritten.
ScribbleCells(d) == FreeCells(d) \cup {LockedCell(d)}

\* A fresh isValidMove argument grid: a table or its completion.
BaseGrid == grid = sudokuPuzzles(difficulty) \/ grid = Solution(difficulty)

UseCompletion ==
    /\ validCall = Null
    /\ grid = sudokuPuzzles(difficulty)
    /\ grid' = Solution(difficulty)
    /\ UNCHANGED <<puzzleTables, difficulty, gameOver, initialGrid, errors,
                   correctCells, selectedNumber, selectedCell, highlightedNumber,
                   lastCall, onErrorCalls, onSolvedCalls, validCall, wasSolved,
                   cleanRun>>

Scribble ==
    \E c \in ScribbleCells(difficulty) : \E v \in 0..9 :
        /\ validCall = Null
        /\ BaseGrid
        /\ grid' = [grid EXCEPT ![c[1]][c[2]] = v]
        /\ UNCHANGED <<puzzleTables, difficulty, gameOver, initialGrid, errors,
                       correctCells, selectedNumber, selectedCell,
                       highlightedNumber, lastCall, onErrorCalls, onSolvedCalls,
                       validCall, wasSolved, cleanRun>>

CallIsValidMove ==
    \E row \in Idx : \E col \in Idx : \E num \in 1..9 :
        /\ validCall = Null
        /\ validCall' = <<row, col, num, isValidMove(grid, row, col, num)>>
        /\ UNCHANGED <<puzzleTables, difficulty, gameOver, grid, initialGrid,
                       errors, correctCells, selectedNumber, selectedCell,
                       highlightedNumber, lastCall, onErrorCalls, onSolvedCalls,
                       wasSolved, cleanRun>>

NextValid == UseCompletion \/ Scribble \/ CallIsValidMove

SpecValid == Init /\ [][NextValid]_vars

(***************************************************************************)
(* Reference notions the properties are stated with.  They are written     *)
(* independently of isValidMove, isSolved and the flag grids.              *)
(***************************************************************************)

Cells == Idx \X Idx

SameBox(a, b) == a[1] \div 3 = b[1] \div 3 /\ a[2] \div 3 = b[2] \div 3

\* The other cells of a cell's row, column and 3x3 box.
Peers[c \in Cells] ==
    {o \in Cells : o # c /\ (o[1] = c[1] \/ o[2] = c[2] \/ SameBox(o, c))}

\* digit occurs in no peer of (row, col).
Legal(g, row, col, digit) ==
    \A o \in Peers[<<row, col>>] : g[o[1]][o[2]] # digit

Full(g) == \A c \in Cells : g[c[1]][c[2]] # 0

\* No digit occurs twice in a row, a column or a box.
RuleConsistent(g) ==
    \A c \in Cells : g[c[1]][c[2]] # 0 => Legal(g, c[1], c[2], g[c[1]][c[2]])

Editable(c) == initialGrid[c[1]][c[2]] = 0

\* The handler that ran last was handleCellClick.
LastWasClick == lastCall[1] = "handleCellClick"

LastCell == <<lastCall[2], lastCall[3]>>

\* The handler that ran last was a click that got past the early return.
\* (gameOver never goes back to false, so it was false at the click.)
LastWasPlacement == LastWasClick /\ Editable(LastCell) /\ ~gameOver

(***************************************************************************)
(* C1: in every reachable state every prefilled cell still holds its       *)
(* puzzle value: initialGrid[r][c] # 0 => grid[r][c] = initialGrid[r][c].  *)
(***************************************************************************)
C1_PrefilledImmutable ==
    \A c \in Cells :
        initialGrid[c[1]][c[2]] # 0 => grid[c[1]][c[2]] = initialGrid[c[1]][c[2]]

\* A prefilled cell was clicked, with a digit other than its own selected,
\* on a board that already took placements.
C1_Witness ==
    /\ LastWasClick
    /\ ~Editable(LastCell)
    /\ ~gameOver
    /\ selectedNumber # initialGrid[LastCell[1]][LastCell[2]]
    /\ grid # initialGrid

(***************************************************************************)
(* C2: whenever onSolved is called the working grid is full and rule-      *)
(* consistent; and a full board with a rule violation always carries an    *)
(* error flag.                                                             *)
(***************************************************************************)
C2_SolvedIsGenuine ==
    /\ onSolvedCalls = 1 => Full(grid) /\ RuleConsistent(grid)
    /\ Full(grid) /\ ~RuleConsistent(grid) => \E c \in Cells : errors[c[1]][c[2]]

\* onSolved was called by a placement that followed overwrites or wrong entries.
C2_Witness == onSolvedCalls = 1 /\ ~cleanRun

\* A step that runs handleCellClick (every other action names itself in lastCall).
ClickStep == lastCall'[1] = "handleCellClick"

ClickedCell == <<lastCall'[2], lastCall'[3]>>

(***************************************************************************)
(* C3: once onSolved has been called, every later handleCellClick changes  *)
(* neither grid nor the flag grids and calls neither onError nor onSolved. *)
(* The component has no solved state: line 113 tests initialGrid and       *)
(* gameOver only, so the click below overwrites the solved board.          *)
(***************************************************************************)
C3_SolvedIsTerminal ==
    [][(wasSolved /\ ClickStep) =>
          /\ UNCHANGED <<grid, errors, correctCells>>
          /\ onErrorCalls' = 0
          /\ onSolvedCalls' = 0]_vars

(***************************************************************************)
(* C4: while gameOver is set, handleCellClick on any cell leaves grid,     *)
(* initialGrid, errors, correctCells and selectedCell unchanged and calls  *)
(* neither onError nor onSolved.                                           *)
(***************************************************************************)
C4_GameOverIsTerminal ==
    [][(gameOver /\ ClickStep) =>
          /\ UNCHANGED <<grid, initialGrid, errors, correctCells, selectedCell>>
          /\ onErrorCalls' = 0
          /\ onSolvedCalls' = 0]_vars

\* An editable cell was clicked after gameOver was set, with a digit selected
\* that the cell does not hold, and it was not the selected cell.
C4_Witness ==
    /\ gameOver
    /\ LastWasClick
    /\ Editable(LastCell)
    /\ grid[LastCell[1]][LastCell[2]] # selectedNumber
    /\ selectedCell # LastCell

(***************************************************************************)
(* C5: handleCellClick on a prefilled cell changes nothing: grid, errors,  *)
(* correctCells and selectedCell are unchanged and neither onError nor     *)
(* onSolved is called, whatever digit is selected.                         *)
(***************************************************************************)
C5_PrefilledClickIsNoOp ==
    [][(ClickStep /\ ~Editable(ClickedCell)) =>
          /\ UNCHANGED <<grid, initialGrid, errors, correctCells, selectedCell>>
          /\ onErrorCalls' = 0
          /\ onSolvedCalls' = 0]_vars

\* A prefilled cell was clicked in a running game after a placement on
\* another cell, with a digit selected that would have been legal there.
C5_Witness ==
    /\ LastWasClick
    /\ ~Editable(LastCell)
    /\ ~gameOver
    /\ selectedCell # Null
    /\ selectedCell # LastCell
    /\ Legal(grid, LastCell[1], LastCell[2], selectedNumber)

\* Solution(d) is a complete rule-consistent grid that extends table d.
IsCompletion[d \in Difficulties] ==
    /\ Full(Solution(d))
    /\ RuleConsistent(Solution(d))
    /\ \A c \in Cells :
          sudokuPuzzles(d)[c[1]][c[2]] # 0
              => Solution(d)[c[1]][c[2]] = sudokuPuzzles(d)[c[1]][c[2]]

(***************************************************************************)
(* C6: from a freshly loaded puzzle, while every placement puts the        *)
(* solution digit into an empty cell, each placement is accepted (no       *)
(* onError, the cell is flagged correct) and onSolved is called by the     *)
(* placement that fills the last empty cell and by no earlier one.         *)
(***************************************************************************)
C6_SolutionRunSolves ==
    (cleanRun /\ IsCompletion[difficulty]) =>
        /\ wasSolved <=> Full(grid)
        /\ LastWasPlacement =>
              /\ onErrorCalls = 0
              /\ correctCells[LastCell[1]][LastCell[2]]
              /\ ~errors[LastCell[1]][LastCell[2]]
              /\ onSolvedCalls = 1 <=> Full(grid)

\* The run ended, with a cell of row 0 filled last.
C6_Witness ==
    /\ cleanRun
    /\ IsCompletion[difficulty]
    /\ LastWasPlacement
    /\ LastCell[1] = 0
    /\ Full(grid)
    /\ onSolvedCalls = 1

(***************************************************************************)
(* C7: after every placement that got past the early return, onSolved is   *)
(* called iff the updated grid has no 0 and the updated errors grid has no *)
(* flag set; the stored flags decide, not a fresh scan of the board.       *)
(***************************************************************************)
C7_SolvedPredicate ==
    LastWasPlacement =>
        (onSolvedCalls = 1 <=>
            (Full(grid) /\ \A c \in Cells : ~errors[c[1]][c[2]]))

\* A placement produced a full rule-consistent board and onSolved was not
\* called, because another cell still carries an error flag.
C7_Witness ==
    /\ LastWasPlacement
    /\ Full(grid)
    /\ RuleConsistent(grid)
    /\ onSolvedCalls = 0
    /\ onErrorCalls = 0

(***************************************************************************)
(* C8: isValidMove(grid, row, col, digit) is true exactly when digit       *)
(* occurs in no other cell of the row, of the column and of the 3x3 box of *)
(* (row, col), for every cell and every digit 1..9.                        *)
(***************************************************************************)
C8_IsValidMoveIsLegality ==
    validCall # Null =>
        (validCall[4] <=> Legal(grid, validCall[1], validCall[2], validCall[3]))

\* A call returned false for a clash in the cell's box alone: the digit is
\* in no other cell of the row or the column.
C8_Witness ==
    /\ validCall # Null
    /\ ~validCall[4]
    /\ \A x \in Idx : x # validCall[2] => grid[validCall[1]][x] # validCall[3]
    /\ \A x \in Idx : x # validCall[1] => grid[x][validCall[2]] # validCall[3]

(***************************************************************************)
(* C9: a placement whose digit occurs in another cell of the row, column   *)
(* or box still writes the digit into grid[row][col], sets the cell's      *)
(* error flag, clears its correct flag and calls onError exactly once.     *)
(***************************************************************************)
C9_IllegalPlacement ==
    (LastWasPlacement /\ ~Legal(grid, LastCell[1], LastCell[2], selectedNumber)) =>
        /\ grid[LastCell[1]][LastCell[2]] = selectedNumber
        /\ errors[LastCell[1]][LastCell[2]]
        /\ ~correctCells[LastCell[1]][LastCell[2]]
        /\ onErrorCalls = 1

\* On the freshly loaded easy puzzle, 5 was placed at (0,2) and rejected.
C9_Witness ==
    /\ difficulty = "easy"
    /\ lastCall = <<"handleCellClick", 0, 2>>
    /\ ~gameOver
    /\ grid = [easy EXCEPT ![0][2] = 5]
    /\ errors = [AllFalse EXCEPT ![0][2] = TRUE]
    /\ correctCells = AllFalse
    /\ onErrorCalls = 1

(***************************************************************************)
(* C10: a placement whose digit occurs in no other cell of the row, column *)
(* or box writes the digit into grid[row][col], sets the cell's correct    *)
(* flag, clears its error flag (also when it was set) and does not call    *)
(* onError.                                                                *)
(***************************************************************************)
C10_LegalPlacement ==
    (LastWasPlacement /\ Legal(grid, LastCell[1], LastCell[2], selectedNumber)) =>
        /\ grid[LastCell[1]][LastCell[2]] = selectedNumber
        /\ correctCells[LastCell[1]][LastCell[2]]
        /\ ~errors[LastCell[1]][LastCell[2]]
        /\ onErrorCalls = 0

\* On the easy puzzle, 4 was placed at (0,2) over an earlier wrong entry (the
\* run is not clean and no other cell was touched) and accepted.
C10_Witness ==
    /\ difficulty = "easy"
    /\ lastCall = <<"handleCellClick", 0, 2>>
    /\ ~gameOver
    /\ ~cleanRun
    /\ grid = [easy EXCEPT ![0][2] = 4]
    /\ errors = AllFalse
    /\ correctCells = [AllFalse EXCEPT ![0][2] = TRUE]
    /\ onErrorCalls = 0

(***************************************************************************)
(* C11: the puzzle tables and initialGrid are never changed by placements  *)
(* or difficulty changes (initialGrid is always the table of the current   *)
(* difficulty), and right after a load grid = initialGrid = that table and *)
(* no cell has a flag, whatever was played before.                         *)
(***************************************************************************)
C11_LoadIsPristine ==
    /\ puzzleTables = [d \in Difficulties |-> sudokuPuzzles(d)]
    /\ initialGrid = sudokuPuzzles(difficulty)
    /\ lastCall[1] \in {"mount", "loadPuzzle"} =>
          /\ grid = sudokuPuzzles(difficulty)
          /\ errors = AllFalse
          /\ correctCells = AllFalse

\* The easy puzzle was loaded again after a placement on its cell (0,3),
\* which is prefilled in the other two tables.
C11_Witness ==
    /\ lastCall = <<"loadPuzzle", "easy">>
    /\ selectedCell = <<0, 3>>
    /\ grid = easy

\* g with rows and columns exchanged.
Transpose(g) == [r \in Idx |-> [c \in Idx |-> g[c][r]]]

(***************************************************************************)
(* C12: isValidMove(g, row, col, digit) = isValidMove(transpose(g), col,   *)
(* row, digit), for every cell and every digit 1..9.                       *)
(***************************************************************************)
C12_TransposeSymmetry ==
    validCall # Null =>
        (validCall[4] <=>
            isValidMove(Transpose(grid), validCall[2], validCall[1], validCall[3]))

\* A call returned false for a clash in the cell's row alone (outside its
\* box): on the transposed grid only the column scan can find it.
C12_Witness ==
    /\ validCall # Null
    /\ ~validCall[4]
    /\ \E x \in Idx : x # validCall[2] /\ grid[validCall[1]][x] = validCall[3]
    /\ \A x \in Idx : x # validCall[1] => grid[x][validCall[2]] # validCall[3]
    /\ \A o \in Peers[<<validCall[1], validCall[2]>>] :
          SameBox(o, <<validCall[1], validCall[2]>>)
              => grid[o[1]][o[2]] # validCall[3]

(***************************************************************************)
(* C13: selectedNumber is always in 1..9, so no placement writes 0 into a  *)
(* cell or passes 0 to isValidMove; and loading a puzzle leaves            *)
(* selectedNumber as it was.                                               *)
(***************************************************************************)
C13_SelectedDigitInRange ==
    /\ [](/\ selectedNumber \in 1..9
          /\ validCall # Null => validCall[3] \in 1..9
          /\ LastWasPlacement =>
                /\ validCall # Null
                /\ grid[LastCell[1]][LastCell[2]] \in 1..9)
    /\ [][lastCall'[1] = "loadPuzzle" => selectedNumber' = selectedNumber]_vars

\* A puzzle was loaded after a placement, with a digit other than the
\* default still selected.
C13_Witness ==
    /\ lastCall[1] = "loadPuzzle"
    /\ selectedCell # Null
    /\ selectedNumber # 1

(***************************************************************************)
(* C14: in every reachable state no cell has both flags; a prefilled cell  *)
(* has neither; an editable cell has neither flag exactly when it holds 0  *)
(* and exactly one flag when it holds a digit.                             *)
(***************************************************************************)
C14_TriState ==
    \A c \in Cells :
        LET e == errors[c[1]][c[2]]
            k == correctCells[c[1]][c[2]]
        IN  /\ ~(e /\ k)
            /\ ~Editable(c) => ~e /\ ~k
            /\ Editable(c) => ((~e /\ ~k) <=> grid[c[1]][c[2]] = 0)

\* The board holds an editable cell flagged error, one flagged correct and
\* one still empty.
C14_Witness ==
    /\ \E c \in Cells : Editable(c) /\ errors[c[1]][c[2]]
    /\ \E c \in Cells : Editable(c) /\ correctCells[c[1]][c[2]]
    /\ \E c \in Cells : Editable(c) /\ grid[c[1]][c[2]] = 0

(***************************************************************************)
(* C15: a handleCellClick has exactly one outcome: an ignored click calls  *)
(* neither onError nor onSolved, and a placement never calls both, so a    *)
(* rejected placement never completes the puzzle, even on a full board.    *)
(***************************************************************************)
C15_OneOutcome ==
    LastWasClick =>
        /\ onErrorCalls \in {0, 1}
        /\ onSolvedCalls \in {0, 1}
        /\ ~(onErrorCalls = 1 /\ onSolvedCalls = 1)
        /\ (~Editable(LastCell) \/ gameOver) => (onErrorCalls = 0 /\ onSolvedCalls = 0)

\* A rejected placement left the board full, its cell carrying the only
\* error flag, in a session in which onSolved was never called.
C15_Witness ==
    /\ LastWasPlacement
    /\ Full(grid)
    /\ onErrorCalls = 1
    /\ onSolvedCalls = 0
    /\ ~wasSolved
    /\ errors = [AllFalse EXCEPT ![LastCell[1]][LastCell[2]] = TRUE]

(***************************************************************************)
(* C16: a handleCellClick that gets past the early return changes one      *)
(* cell: the value and the flags of every other cell, initialGrid and      *)
(* selectedNumber are as before, and selectedCell becomes (row, col).      *)
(***************************************************************************)
C16_SingleCellMutation ==
    [][(ClickStep /\ Editable(ClickedCell) /\ ~gameOver) =>
          LET r == ClickedCell[1]
              c == ClickedCell[2]
          IN  /\ grid' = [grid EXCEPT ![r][c] = grid'[r][c]]
              /\ errors' = [errors EXCEPT ![r][c] = errors'[r][c]]
              /\ correctCells' = [correctCells EXCEPT ![r][c] = correctCells'[r][c]]
              /\ initialGrid' = initialGrid
              /\ selectedNumber' = selectedNumber
              /\ selectedCell' = ClickedCell]_vars

\* A placement was accepted while another cell carries an error flag and a
\* third one a correct flag.
C16_Witness ==
    /\ LastWasPlacement
    /\ selectedCell = LastCell
    /\ onErrorCalls = 0
    /\ \E c \in Cells : c # LastCell /\ errors[c[1]][c[2]]
    /\ \E c \in Cells : c # LastCell /\ correctCells[c[1]][c[2]]

(***************************************************************************)
(* C17: whenever a placement leaves the grid full with no digit repeated   *)
(* in a row, column or box, that placement calls onSolved.                 *)
(* The error flag of a cell is only rewritten when that cell is placed     *)
(* again, so a flag set against a digit that has since been overwritten    *)
(* stays and keeps line 142 false on the finished board.                   *)
(***************************************************************************)
C17_SolvedCheckComplete ==
    (LastWasPlacement /\ Full(grid) /\ RuleConsistent(grid)) => onSolvedCalls = 1

(***************************************************************************)
(* C18: in every reachable state a filled editable cell carries the error  *)
(* flag exactly when its digit occurs in another cell of its row, column   *)
(* or box of the current grid, and the correct flag exactly when not.      *)
(* The flags are those of the cell's last write (see C17).                 *)
(***************************************************************************)
C18_FlagsReflectBoard ==
    \A c \in Cells :
        (Editable(c) /\ grid[c[1]][c[2]] # 0) =>
            /\ errors[c[1]][c[2]] <=> ~Legal(grid, c[1], c[2], grid[c[1]][c[2]])
            /\ correctCells[c[1]][c[2]] <=> Legal(grid, c[1], c[2], grid[c[1]][c[2]])

====
